---- MODULE Spec2Model ----
(***************************************************************************)
(* Jewelry AR Try-On API (backend/main.py, backend/models.py).             *)
(*                                                                         *)
(* The two MongoDB collections are the shared state.  Every request        *)
(* handler is a coroutine: it runs from one `await` on the database to the *)
(* next without interruption, and other handlers may run at each await.    *)
(* One action below is one such segment of a handler (for a handler with a *)
(* single database call, the whole handler).                               *)
(*                                                                         *)
(* Encoding of Python values: None of an object-typed field is NoneObj,    *)
(* None of a string-typed field is NoneStr, an Optional[int] is <<>> for   *)
(* None and <<n>> for n.  A request field the client left out is Omitted.  *)
(* The storage-assigned "_id" is not modelled.                             *)
(***************************************************************************)
EXTENDS Integers, Sequences, FiniteSets, TLC

VARIABLES
    jewelry_items,      \* db.jewelry_items: item_id -> document
    analytics_events,   \* db.analytics_events: documents in insertion order
    handlers,           \* the request handlers in flight (suspended at an await)
    response,           \* the request answered last, and its response
    now,                \* datetime.utcnow()
    requests,           \* number of requests received so far
    ok_gets,            \* history: item_id -> number of Gets answered 200
    crashed,            \* history: the process crashed between track_event's writes
    tracked_after       \* history: event_ids inserted when their jewelry_id was stored

vars == <<jewelry_items, analytics_events, handlers, response, now, requests, ok_gets,
          crashed, tracked_after>>

----------------------------------------------------------------------------
(* Bounds of the model *)

MaxRequests == 3
MaxTime == 1

Handlers == {1, 2}

----------------------------------------------------------------------------
(* Python values *)

NoneObj == [none |-> TRUE]
NoneStr == "<None>"
NoneInt == <<>>
Omitted == [omitted |-> TRUE]

TruthyObj(v) == v # NoneObj
TruthyStr(s) == s # NoneStr /\ s # ""

Min(a, b) == IF a <= b THEN a ELSE b
Max(a, b) == IF a >= b THEN a ELSE b

----------------------------------------------------------------------------
(* models.py *)

JewelryTypes == {"earrings", "necklace", "ring", "bracelet"}
JewelryStatuses == {"draft", "active", "archived"}
EventTypes == {"view", "try_on", "share", "click", "purchase"}

PriceModelDefaults == [currency |-> "NPR", discount |-> NoneInt]

ARConfigModelDefaults ==
    [color |-> "#FFD700", size |-> 30, position_offset |-> [x |-> 0, y |-> 0],
     landmarks |-> <<234, 454>>, render_type |-> "circle"]

MetadataModelDefaults ==
    [material |-> NoneStr, weight |-> NoneStr, tags |-> <<>>,
     category |-> NoneStr, subcategory |-> NoneStr]

StockModelDefaults == [available |-> TRUE, quantity |-> 0, low_stock_threshold |-> 3]

\* pydantic: a nested model parsed from the fields the client gave, the others
\* taking the model's defaults (what .dict() then returns).
ParseModel(raw, defaults) == raw @@ defaults

\* pydantic: Optional[Model] = Model(): left out, the default instance; null, None.
ParseOptionalModel(raw, defaults) ==
    IF raw = Omitted THEN defaults
    ELSE IF raw = NoneObj THEN NoneObj
    ELSE ParseModel(raw, defaults)

NameMaxLength == 200
DescriptionMaxLength == 1000
DiscountMax == 100
SizeMin == 10
SizeMax == 100

ValidPrice(raw) ==
    /\ "amount" \in DOMAIN raw
    /\ raw.amount >= 0
    /\ \/ "discount" \notin DOMAIN raw
       \/ raw.discount = NoneInt
       \/ (raw.discount[1] >= 0 /\ raw.discount[1] <= DiscountMax)

ValidARConfig(raw) ==
    \/ raw \in {Omitted, NoneObj}
    \/ "size" \notin DOMAIN raw
    \/ (raw.size >= SizeMin /\ raw.size <= SizeMax)

\* JewelryItemCreate: what pydantic accepts (anything else is answered 422
\* before the handler runs).
ValidJewelryItemCreate(raw) ==
    /\ Len(raw.name) >= 1
    /\ Len(raw.name) <= NameMaxLength
    /\ raw.type \in JewelryTypes
    /\ (raw.description = NoneStr \/ Len(raw.description) <= DescriptionMaxLength)
    /\ ValidPrice(raw.price)
    /\ ValidARConfig(raw.ar_config)

JewelryItemCreate(raw) ==
    [name |-> raw.name,
     type |-> raw.type,
     description |-> raw.description,
     price |-> ParseModel(raw.price, PriceModelDefaults),
     metadata |-> ParseOptionalModel(raw.metadata, MetadataModelDefaults),
     ar_config |-> ParseOptionalModel(raw.ar_config, ARConfigModelDefaults),
     stock |-> ParseOptionalModel(raw.stock, StockModelDefaults)]

----------------------------------------------------------------------------
(* main.py: utility functions *)

Digits == <<"1", "2", "3", "4", "5", "6">>

\* nanoid.generate(size) returns a random code of that length, never (by its
\* contract) one it returned before.  Codes are interchangeable, so the model
\* numbers them: the n-th call returns the n-th code.
Code8(n) == "V1StGXR" \o Digits[n]
Code16(n) == "x9Kq2LmZ7pRt4Wv" \o Digits[n]

NanoId8 == {Code8(n) : n \in 1..(MaxRequests + 1)}
NanoId16 == {Code16(n) : n \in 1..(MaxRequests + 1)}

generate_short_code(used) == {Code8(Cardinality(used) + 1)}

generate_event_id(used) == {Code16(Cardinality(used) + 1)}

create_share_link(short_code) ==
    [short_code |-> short_code,
     full_url |-> "https://yoursite.com/try-on/" \o short_code,
     qr_code |-> "https://api.qrserver.com/v1/create-qr-code/?size=200x200&data=https://yoursite.com/try-on/"
                 \o short_code]

----------------------------------------------------------------------------
(* The document store *)

find_one(coll, item_id) ==
    IF item_id \in DOMAIN coll THEN coll[item_id] ELSE NoneObj

insert_one(coll, doc) == (doc.item_id :> doc) @@ coll

Inc_twice(doc, field) ==
    [doc EXCEPT !.analytics =
        (field :> ((IF field \in DOMAIN @ THEN @[field] ELSE 0) + 2)) @@ @]

\* {"$inc": {"analytics.<field>": 1}} on one document: atomic in the store,
\* creating the field at 1 when the document has none.
Inc(doc, field) ==
    [doc EXCEPT !.analytics =
        (field :> ((IF field \in DOMAIN @ THEN @[field] ELSE 0) + 1)) @@ @]

\* {"$set": update_data} on one document.
Set(doc, update_data) == update_data @@ doc

\* update_one({"item_id": item_id}, {"$inc": ...}): the only match, or nothing.
update_one_inc(coll, item_id, field) ==
    IF item_id \in DOMAIN coll
    THEN [coll EXCEPT ![item_id] = Inc(@, field)]
    ELSE coll

\* update_one({"item_id": item_id}, {"$set": ...}): the only match, or nothing.
update_one_set(coll, item_id, update_data) ==
    IF item_id \in DOMAIN coll
    THEN [coll EXCEPT ![item_id] = Set(@, update_data)]
    ELSE coll

matched_count(coll, item_id) == IF item_id \in DOMAIN coll THEN 1 ELSE 0

----------------------------------------------------------------------------
(* Requests the model sends *)

Idle == [op |-> "idle"]

\* The item ids the model's requests name: every stored item and one id
\* that no item has (the one the next Create will take).
ItemIds == DOMAIN jewelry_items \cup generate_short_code(DOMAIN jewelry_items)

\* A request is taken by the first handler that is not running one (which
\* handler runs a request makes no difference to it).
Free(h) ==
    /\ requests < MaxRequests
    /\ handlers[h] = Idle
    /\ \A g \in Handlers : g < h => handlers[g] # Idle

HTTPException(code, detail) == [status_code |-> code, detail |-> detail]

CreateInputs ==
    {[name |-> "Gold Ring", type |-> "ring", description |-> NoneStr,
      price |-> [amount |-> 100], metadata |-> Omitted, ar_config |-> a,
      stock |-> Omitted]
        : a \in {Omitted, NoneObj, <<>>, [color |-> "#C0C0C0", size |-> 40]}}
    \cup
    {[name |-> "", type |-> "ring", description |-> NoneStr,
      price |-> [amount |-> 100], metadata |-> Omitted, ar_config |-> Omitted,
      stock |-> Omitted]}

----------------------------------------------------------------------------
(* main.py: create_jewelry *)

\* The ar_config of the document.  main.py does not import ARConfigModel, so
\* the else branch raises NameError, which the handler answers with 500.
NameError == [raised |-> "NameError: name 'ARConfigModel' is not defined"]

ar_config_of(item) ==
    IF TruthyObj(item.ar_config) THEN item.ar_config ELSE NameError

jewelry_doc(item, item_id, t) ==
    [item_id |-> item_id,
     name |-> item.name,
     type |-> item.type,
     description |-> item.description,
     price |-> item.price,
     images |-> [thumbnail |-> NoneStr, main |-> NoneStr, gallery |-> <<>>],
     ar_config |-> ar_config_of(item),
     metadata |-> IF TruthyObj(item.metadata) THEN item.metadata ELSE <<>>,
     stock |-> IF TruthyObj(item.stock) THEN item.stock
               ELSE [available |-> TRUE, quantity |-> 0, low_stock_threshold |-> 3],
     share_link |-> create_share_link(item_id),
     analytics |-> [views |-> 0, try_ons |-> 0, shares |-> 0, conversions |-> 0,
                    revenue_generated |-> 0],
     seo |-> [meta_title |-> item.name \o " - Virtual Try-On",
              meta_description |-> IF TruthyStr(item.description)
                                   THEN item.description ELSE "",
              keywords |-> <<>>],
     created_at |-> t,
     updated_at |-> t,
     status |-> "active"]

create_jewelry(h, raw) ==
    /\ Free(h)
    /\ requests' = requests + 1
    /\ IF ~ValidJewelryItemCreate(raw)
       THEN /\ response' = [op |-> "create",
                            resp |-> HTTPException(422, "validation error")]
            /\ UNCHANGED <<jewelry_items, analytics_events, handlers, now, ok_gets, crashed, tracked_after>>
       ELSE \E item_id \in generate_short_code(DOMAIN jewelry_items) :
              LET doc == jewelry_doc(JewelryItemCreate(raw), item_id, now) IN
              IF doc.ar_config = NameError
              THEN /\ response' = [op |-> "create",
                                   resp |-> HTTPException(500, NameError.raised)]
                   /\ UNCHANGED <<jewelry_items, analytics_events, handlers, now,
                                  ok_gets, crashed, tracked_after>>
              ELSE /\ jewelry_items' = insert_one(jewelry_items, doc)
                   /\ ok_gets' = (item_id :> 0) @@ ok_gets
                   /\ response' = [op |-> "create",
                                   resp |-> [status_code |-> 201, success |-> TRUE,
                                             item |-> doc]]
                   /\ UNCHANGED <<analytics_events, handlers, now, crashed,
                                  tracked_after>>

----------------------------------------------------------------------------
(* main.py: get_jewelry_by_id *)

get_find_one(h, item_id) ==
    /\ Free(h)
    /\ requests' = requests + 1
    /\ LET item == find_one(jewelry_items, item_id) IN
       IF ~TruthyObj(item)
       THEN /\ response' = [op |-> "get",
                            resp |-> HTTPException(404, "Jewelry item not found")]
            /\ UNCHANGED handlers
       ELSE /\ handlers' = [handlers EXCEPT ![h] =
                   [op |-> "get", pc |-> "track_view", item_id |-> item_id,
                    item |-> item]]
            /\ UNCHANGED response
    /\ UNCHANGED <<jewelry_items, analytics_events, now, ok_gets, crashed, tracked_after>>

track_view_read_modify_write(coll, item_id, read) ==
    update_one_set(coll, item_id,
                   [analytics |-> [read.analytics EXCEPT !.views = @ + 1]])

\* The write of the view: a "$inc" the store applies to the stored document
\* (not to the copy the handler read).
track_view(coll, item_id, read) == update_one_inc(coll, item_id, "views")

get_update_one(h) ==
    /\ handlers[h].op = "get"
    /\ handlers[h].pc = "track_view"
    /\ LET item_id == handlers[h].item_id
           read == handlers[h].item
       IN /\ jewelry_items' = track_view(jewelry_items, item_id, read)
          /\ ok_gets' = [ok_gets EXCEPT ![item_id] = @ + 1]
          /\ response' = [op |-> "get",
                          resp |-> [status_code |-> 200, success |-> TRUE,
                                    item |-> read]]
    /\ handlers' = [handlers EXCEPT ![h] = Idle]
    /\ UNCHANGED <<analytics_events, now, requests, crashed, tracked_after>>

----------------------------------------------------------------------------

(* main.py: update_jewelry *)

\* JewelryItemUpdate bodies: the fields the client set (item.dict(exclude_unset=True)
\* returns exactly these, nested models included).
UpdateInputs ==
    {[name |-> "New Name"],
     [status |-> "draft"],
     [status |-> "active"],
     [price |-> [amount |-> 80]],
     <<>>}

dict_all(raw) ==
    raw @@ [name |-> NoneStr, type |-> NoneStr, description |-> NoneStr,
            price |-> NoneObj, metadata |-> NoneObj, ar_config |-> NoneObj,
            stock |-> NoneObj, status |-> NoneStr]

dict_exclude_unset(raw) == raw

update_data_of(raw, t) == ("updated_at" :> t) @@ dict_exclude_unset(raw)

update_find_one(h, item_id, raw) ==
    /\ Free(h)
    /\ requests' = requests + 1
    /\ LET existing == find_one(jewelry_items, item_id) IN
       IF ~TruthyObj(existing)
       THEN /\ response' = [op |-> "update",
                            resp |-> HTTPException(404, "Jewelry item not found")]
            /\ UNCHANGED handlers
       ELSE /\ handlers' = [handlers EXCEPT ![h] =
                   [op |-> "update", pc |-> "update_one", item_id |-> item_id,
                    raw |-> raw]]
            /\ UNCHANGED response
    /\ UNCHANGED <<jewelry_items, analytics_events, now, ok_gets, crashed, tracked_after>>

\* The write, and the read of the updated item that follows it (no claim
\* depends on what other handlers do between the two).
update_update_one(h) ==
    /\ handlers[h].op = "update"
    /\ handlers[h].pc = "update_one"
    /\ jewelry_items' = update_one_set(jewelry_items, handlers[h].item_id,
                                       update_data_of(handlers[h].raw, now))
    /\ response' = [op |-> "update",
                    resp |-> [status_code |-> 200, success |-> TRUE,
                              item |-> find_one(jewelry_items', handlers[h].item_id)]]
    /\ handlers' = [handlers EXCEPT ![h] = Idle]
    /\ UNCHANGED <<analytics_events, now, requests, ok_gets, crashed, tracked_after>>

----------------------------------------------------------------------------
(* main.py: delete_jewelry *)

archive(t) == [status |-> "archived", updated_at |-> t]

delete_jewelry(h, item_id) ==
    /\ Free(h)
    /\ requests' = requests + 1
    /\ jewelry_items' = update_one_set(jewelry_items, item_id, archive(now))
    /\ response' = [op |-> "delete",
                    resp |-> IF matched_count(jewelry_items, item_id) = 0
                             THEN HTTPException(404, "Jewelry item not found")
                             ELSE [status_code |-> 200, success |-> TRUE]]
    /\ UNCHANGED <<analytics_events, handlers, now, ok_gets, crashed, tracked_after>>

----------------------------------------------------------------------------
(* main.py: track_event *)

\* AnalyticsEventCreate bodies.
TrackedTypes == {"view", "try_on", "share", "purchase"}

\* duration_seconds values of the requests, apart from None.
Durations == {<<-1>>, <<30>>}

\* An event_type that EventType does not have.
UnknownEventType == "wishlist"

EventInputs ==
    {[jewelry_id |-> j, event_type |-> t, duration_seconds |-> NoneInt]
        : j \in ItemIds, t \in TrackedTypes}

\* The same, with bodies that carry a duration_seconds or an event_type that
\* EventType does not have.
TrackInputs ==
    EventInputs
    \cup {[jewelry_id |-> j, event_type |-> "try_on", duration_seconds |-> d]
             : j \in ItemIds, d \in Durations}
    \cup {[jewelry_id |-> j, event_type |-> UnknownEventType,
            duration_seconds |-> NoneInt] : j \in ItemIds}

\* AnalyticsEventCreate: event_type is an EventType; duration_seconds is
\* Optional[int] with no Field constraint (ge=0 is on AnalyticsEvent only,
\* which track_event does not use).
ValidAnalyticsEventCreate(event) ==
    /\ event.event_type \in EventTypes
    /\ event.duration_seconds = NoneInt \/ event.duration_seconds[1] \in Int

event_ids == {analytics_events[i].event_id : i \in 1..Len(analytics_events)}

event_doc(event, event_id, t) ==
    [event_id |-> event_id,
     jewelry_id |-> event.jewelry_id,
     event_type |-> event.event_type,
     timestamp |-> t,
     session_id |-> NoneStr,
     user_data |-> <<>>,
     source |-> <<>>,
     duration_seconds |-> event.duration_seconds,
     interactions |-> <<>>]

update_field_singular(event_type) == event_type

update_field_conversions(event_type) ==
    IF event_type = "purchase" THEN "conversions" ELSE event_type \o "s"

\* f"analytics.{event.event_type}s", without its "analytics." prefix
update_field(event_type) == event_type \o "s"

track_insert_one(h, event) ==
    /\ Free(h)
    /\ requests' = requests + 1
    /\ IF ~ValidAnalyticsEventCreate(event)
       THEN /\ response' = [op |-> "track",
                            resp |-> HTTPException(422, "validation error")]
            /\ UNCHANGED <<analytics_events, handlers, tracked_after>>
       ELSE /\ \E event_id \in generate_event_id(event_ids) :
                  /\ analytics_events' =
                         Append(analytics_events, event_doc(event, event_id, now))
                  /\ tracked_after' =
                         IF event.jewelry_id \in DOMAIN jewelry_items
                         THEN tracked_after \cup {event_id}
                         ELSE tracked_after
            /\ handlers' = [handlers EXCEPT ![h] =
                   [op |-> "track", pc |-> "update_one", event |-> event]]
            /\ UNCHANGED response
    /\ UNCHANGED <<jewelry_items, now, ok_gets, crashed>>

track_update_one(h) ==
    /\ handlers[h].op = "track"
    /\ handlers[h].pc = "update_one"
    /\ LET event == handlers[h].event
       IN /\ jewelry_items' = update_one_inc(jewelry_items, event.jewelry_id,
                                             update_field(event.event_type))
          /\ response' = [op |-> "track",
                          resp |-> [status_code |-> 200, success |-> TRUE]]
    /\ handlers' = [handlers EXCEPT ![h] = Idle]
    /\ UNCHANGED <<analytics_events, now, requests, ok_gets, crashed, tracked_after>>

\* The process dies while a track_event handler is suspended between its
\* insert_one and its update_one: every handler in flight is lost, the
\* database keeps what was written.
Crash ==
    /\ \E h \in Handlers : handlers[h].op = "track"
    /\ handlers' = [h \in Handlers |-> Idle]
    /\ crashed' = TRUE
    /\ UNCHANGED <<jewelry_items, analytics_events, response, now, requests, ok_gets,
                   tracked_after>>

----------------------------------------------------------------------------
(* main.py: get_all_jewelry *)

DefaultPage == 1
DefaultPageSize == 20

\* The sequences that list every element of S once, in an order the sort on
\* key, descending, can produce (the store orders equal keys either way).
SortDescending(S, key) ==
    {seq \in [1..Cardinality(S) -> S] :
        /\ \A i, j \in 1..Cardinality(S) : i # j => seq[i] # seq[j]
        /\ \A i, j \in 1..Cardinality(S) : i < j => key[seq[i]] >= key[seq[j]]}

\* cursor.skip(skip).limit(limit)
SkipLimit(seq, skip, limit) ==
    SubSeq(seq, skip + 1, Min(skip + limit, Len(seq)))

Matches_active_by_default(doc, type, status) ==
    /\ doc.status = (IF TruthyStr(status) THEN status ELSE "active")
    /\ TruthyStr(type) => doc.type = type

\* query = {"status": status} if status else {}; if type: query["type"] = type
Matches(doc, type, status) ==
    /\ TruthyStr(status) => doc.status = status
    /\ TruthyStr(type) => doc.type = type

find(coll, type, status) ==
    {coll[i] : i \in {j \in DOMAIN coll : Matches(coll[j], type, status)}}

count_documents(coll, type, status) == Cardinality(find(coll, type, status))

total_pages_floor(total_count, page_size) == total_count \div page_size

total_pages_of(total_count, page_size) == (total_count + page_size - 1) \div page_size

\* .sort("created_at", -1)
created_at_of(S) == [doc \in S |-> doc.created_at]

\* The handler as one step: the store does not change between its find and
\* its count_documents.
get_all_jewelry(h, page, page_size, type, status) ==
    /\ Free(h)
    /\ requests' = requests + 1
    /\ LET skip == (page - 1) * page_size
           total_count == count_documents(jewelry_items, type, status)
       IN \E sorted \in SortDescending(find(jewelry_items, type, status),
                                        created_at_of(find(jewelry_items, type, status))) :
            LET items == SkipLimit(sorted, skip, page_size) IN
            response' = [op |-> "list", type |-> type, status |-> status,
                         resp |-> [status_code |-> 200, success |-> TRUE,
                                   items |-> items,
                                   count |-> Len(items),
                                   page |-> page,
                                   page_size |-> page_size,
                                   total_count |-> total_count,
                                   total_pages |-> total_pages_of(total_count, page_size)]]
    /\ UNCHANGED <<jewelry_items, analytics_events, handlers, now, ok_gets, crashed, tracked_after>>

\* The queries the model sends to the running service.
ListInputs ==
    {[page |-> DefaultPage, page_size |-> DefaultPageSize, type |-> NoneStr, status |-> s]
        : s \in {"active", "", NoneStr}}
    \cup
    {[page |-> 2, page_size |-> 1, type |-> NoneStr, status |-> NoneStr],
     [page |-> DefaultPage, page_size |-> DefaultPageSize, type |-> "earrings",
      status |-> NoneStr]}

----------------------------------------------------------------------------

(* main.py: get_overall_analytics *)

TopItemsLimit == 5

\* {"$sum": "$analytics.<field>"}: a document without the field adds 0.
RECURSIVE Sum(_, _)
Sum(S, field) ==
    IF S = {} THEN 0
    ELSE LET d == CHOOSE x \in S : TRUE
         IN (IF field \in DOMAIN d.analytics THEN d.analytics[field] ELSE 0)
            + Sum(S \ {d}, field)

\* .sort("analytics.try_ons", -1)
try_ons_of(S) == [doc \in S |-> doc.analytics.try_ons]

aggregate_all(coll) ==
    LET matched == find(coll, NoneStr, NoneStr) IN
    IF matched = {} THEN <<>>
    ELSE <<[total_items |-> Cardinality(matched),
            total_views |-> Sum(matched, "views"),
            total_try_ons |-> Sum(matched, "try_ons"),
            total_shares |-> Sum(matched, "shares"),
            total_conversions |-> Sum(matched, "conversions"),
            total_revenue |-> Sum(matched, "revenue_generated")]>>

\* [{"$match": {"status": "active"}}, {"$group": {"_id": None, ...}}]: one
\* group document over the matched items, and no document when none matches.
aggregate(coll) ==
    LET matched == find(coll, NoneStr, "active") IN
    IF matched = {} THEN <<>>
    ELSE <<[total_items |-> Cardinality(matched),
            total_views |-> Sum(matched, "views"),
            total_try_ons |-> Sum(matched, "try_ons"),
            total_shares |-> Sum(matched, "shares"),
            total_conversions |-> Sum(matched, "conversions"),
            total_revenue |-> Sum(matched, "revenue_generated")]>>

\* summary.get(key, 0)
get(summary, key) == IF key \in DOMAIN summary THEN summary[key] ELSE 0

\* round(x, 2) of x = num / den * 100, in hundredths: the nearest hundredth,
\* the even one of two equally near (Python rounds half to even).
round2_percent(num, den) ==
    LET scaled == num * 10000
        q == scaled \div den
        r == scaled % den
    IN IF 2 * r > den \/ (2 * r = den /\ q % 2 = 1) THEN q + 1 ELSE q

\* (conversions / try_ons * 100) if try_ons > 0 else 0, then round(.., 2);
\* the value is in hundredths of a percent.
conversion_rate_of(conversions, try_ons) ==
    IF try_ons > 0 THEN round2_percent(conversions, try_ons) ELSE 0

get_overall_analytics(h) ==
    /\ Free(h)
    /\ requests' = requests + 1
    /\ LET result == aggregate(jewelry_items)
           summary == IF result # <<>> THEN result[1] ELSE <<>>
           try_ons == get(summary, "total_try_ons")
           conversions == get(summary, "total_conversions")
           active == find(jewelry_items, NoneStr, "active")
       IN \E sorted \in SortDescending(active, try_ons_of(active)) :
            response' =
              [op |-> "overall",
               resp |-> [status_code |-> 200, success |-> TRUE,
                         summary |-> [total_items |-> get(summary, "total_items"),
                                      total_views |-> get(summary, "total_views"),
                                      total_try_ons |-> get(summary, "total_try_ons"),
                                      total_shares |-> get(summary, "total_shares"),
                                      total_conversions |-> get(summary, "total_conversions"),
                                      total_revenue |-> get(summary, "total_revenue"),
                                      conversion_rate |-> conversion_rate_of(conversions, try_ons)],
                         top_items |-> SkipLimit(sorted, 0, TopItemsLimit)]]
    /\ UNCHANGED <<jewelry_items, analytics_events, handlers, now, ok_gets, crashed, tracked_after>>

----------------------------------------------------------------------------

\* Time passes between two steps of the handlers.
Tick ==
    /\ now < MaxTime
    /\ now' = now + 1
    /\ UNCHANGED <<jewelry_items, analytics_events, handlers, response, requests, ok_gets, crashed, tracked_after>>

Init ==
    /\ jewelry_items = <<>>
    /\ analytics_events = <<>>
    /\ handlers = [h \in Handlers |-> Idle]
    /\ response = [op |-> "none"]
    /\ now = 0
    /\ requests = 0
    /\ ok_gets = <<>>
    /\ crashed = FALSE
    /\ tracked_after = {}

Next ==
    \/ \E h \in Handlers, raw \in CreateInputs : create_jewelry(h, raw)
    \/ \E h \in Handlers, item_id \in ItemIds : get_find_one(h, item_id)
    \/ \E h \in Handlers : get_update_one(h)
    \/ \E h \in Handlers, item_id \in ItemIds, raw \in UpdateInputs :
          update_find_one(h, item_id, raw)
    \/ \E h \in Handlers : update_update_one(h)
    \/ \E h \in Handlers, item_id \in ItemIds : delete_jewelry(h, item_id)
    \/ \E h \in Handlers, event \in EventInputs : track_insert_one(h, event)
    \/ \E h \in Handlers : track_update_one(h)
    \/ \E h \in Handlers, q \in ListInputs :
          get_all_jewelry(h, q.page, q.page_size, q.type, q.status)
    \/ \E h \in Handlers : get_overall_analytics(h)
    \/ Tick

Spec == Init /\ [][Next]_vars

----------------------------------------------------------------------------
(* C1 *)

ViewEvents(i) ==
    {k \in 1..Len(analytics_events) :
        /\ analytics_events[k].jewelry_id = i
        /\ analytics_events[k].event_type = "view"}

\* After n Gets of an item were answered 200, and with no view event for it,
\* its stored views is n.
C1_NoLostView ==
    \A i \in DOMAIN jewelry_items :
        ViewEvents(i) = {} => jewelry_items[i].analytics.views = ok_gets[i]

C1_GetStep ==
    \A h \in Handlers :
        /\ get_update_one(h) =>
              LET X == handlers[h].item_id IN
              /\ X \in DOMAIN jewelry_items
              /\ DOMAIN jewelry_items' = DOMAIN jewelry_items
              /\ jewelry_items'[X].analytics.views = jewelry_items[X].analytics.views + 1
              /\ \A i \in DOMAIN jewelry_items \ {X} : jewelry_items'[i] = jewelry_items[i]
              /\ analytics_events' = analytics_events
              /\ response'.op = "get"
              /\ response'.resp.status_code = 200
        /\ \A X \in ItemIds :
              get_find_one(h, X) =>
                 /\ jewelry_items' = jewelry_items
                 /\ analytics_events' = analytics_events
                 /\ X \notin DOMAIN jewelry_items =>
                       /\ response'.op = "get"
                       /\ response'.resp.status_code = 404
                       /\ handlers' = handlers

\* C1: every successful Get increases the stored analytics.views of its item
\* by exactly 1 and changes no other item; a Get of an absent item_id fails
\* NotFound and changes nothing; and under any interleaving of Gets no
\* increment is lost: after n successful Gets of an item without view events
\* its views is n.
C1_Get == []C1_NoLostView /\ [][C1_GetStep]_vars

\* Two Gets of one item were answered, the second having read the item
\* before the first one's increment (it returned views 0).
C1_Witness ==
    /\ response.op = "get"
    /\ response.resp.status_code = 200
    /\ response.resp.item.analytics.views = 0
    /\ ok_gets[response.resp.item.item_id] = 2
    /\ jewelry_items[response.resp.item.item_id].analytics.views = 2

----------------------------------------------------------------------------
(* C2 *)

CounterField(event_type) ==
    CASE event_type = "view" -> "views"
      [] event_type = "try_on" -> "try_ons"
      [] event_type = "share" -> "shares"
      [] event_type = "click" -> "clicks"
      [] event_type = "purchase" -> "purchases"

C2_TrackStep ==
    \A h \in Handlers :
        /\ \A e \in EventInputs :
              track_insert_one(h, e) =>
                 LET n == Len(analytics_events) IN
                 /\ Len(analytics_events') = n + 1
                 /\ SubSeq(analytics_events', 1, n) = analytics_events
                 /\ analytics_events'[n + 1].jewelry_id = e.jewelry_id
                 /\ analytics_events'[n + 1].event_type = e.event_type
                 /\ analytics_events'[n + 1].event_id \notin event_ids
                 /\ jewelry_items' = jewelry_items
        /\ track_update_one(h) =>
              LET X == handlers[h].event.jewelry_id
                  f == CounterField(handlers[h].event.event_type)
              IN /\ analytics_events' = analytics_events
                 /\ response'.op = "track"
                 /\ response'.resp.status_code = 200
                 /\ response'.resp.success
                 /\ DOMAIN jewelry_items' = DOMAIN jewelry_items
                 /\ \A i \in DOMAIN jewelry_items \ {X} : jewelry_items'[i] = jewelry_items[i]
                 /\ X \in DOMAIN jewelry_items =>
                       LET old == jewelry_items[X]
                           new == jewelry_items'[X]
                       IN /\ DOMAIN new = DOMAIN old
                          /\ \A k \in DOMAIN old \ {"analytics"} : new[k] = old[k]
                          /\ DOMAIN new.analytics = DOMAIN old.analytics \cup {f}
                          /\ \A c \in DOMAIN old.analytics \ {f} :
                                new.analytics[c] = old.analytics[c]
                          /\ new.analytics[f] =
                                (IF f \in DOMAIN old.analytics THEN old.analytics[f] ELSE 0) + 1

\* C2: TrackEvent of type t for jewelry_id X persists exactly one new event
\* and returns success; if an item X exists its counter analytics.<t>s goes up
\* by exactly 1 and no other field of any item changes; if none exists no
\* item is changed or created, and the event is stored all the same.
C2_TrackEvent == [][C2_TrackStep]_vars

\* A share of a stored item was counted, and an event of an item_id that no
\* item has was stored and answered with success.
C2_Witness ==
    /\ response.op = "track"
    /\ response.resp.status_code = 200
    /\ \A h \in Handlers : handlers[h] = Idle
    /\ \E i \in DOMAIN jewelry_items : jewelry_items[i].analytics.shares = 1
    /\ \E k \in 1..Len(analytics_events) :
          analytics_events[k].jewelry_id \notin DOMAIN jewelry_items

----------------------------------------------------------------------------
(* C3 *)

UpdatableFields ==
    {"name", "type", "description", "price", "metadata", "ar_config", "stock", "status"}

C3_UpdateStep ==
    \A h \in Handlers :
        /\ \A X \in ItemIds, raw \in UpdateInputs :
              update_find_one(h, X, raw) =>
                 /\ jewelry_items' = jewelry_items
                 /\ analytics_events' = analytics_events
                 /\ X \notin DOMAIN jewelry_items =>
                       /\ response'.op = "update"
                       /\ response'.resp.status_code = 404
                       /\ handlers' = handlers
        /\ update_update_one(h) =>
              LET X == handlers[h].item_id
                  raw == handlers[h].raw
                  old == jewelry_items[X]
                  new == jewelry_items'[X]
              IN /\ DOMAIN raw \subseteq UpdatableFields
                 /\ DOMAIN jewelry_items' = DOMAIN jewelry_items
                 /\ \A i \in DOMAIN jewelry_items \ {X} : jewelry_items'[i] = jewelry_items[i]
                 /\ analytics_events' = analytics_events
                 /\ DOMAIN new = DOMAIN old
                 /\ \A k \in DOMAIN old \ (DOMAIN raw \cup {"updated_at"}) : new[k] = old[k]
                 /\ \A k \in DOMAIN raw : new[k] = raw[k]
                 /\ new.updated_at = now
                 /\ new.item_id = old.item_id
                 /\ new.share_link = old.share_link
                 /\ new.analytics = old.analytics
                 /\ new.created_at = old.created_at
                 /\ response'.op = "update"
                 /\ response'.resp.status_code = 200
                 /\ response'.resp.item = new

\* C3: Update of a stored item changes only the fields present in the request
\* (among name, type, description, price, metadata, ar_config, stock, status)
\* and updated_at; item_id, share_link, the analytics counters, created_at,
\* every other field and every other item stay as they were.  Update of an
\* absent item_id fails NotFound and changes nothing.
C3_Update == [][C3_UpdateStep]_vars

\* An Update of the name alone was answered: the item has the new name, a
\* later updated_at, and the price, ar_config and status it was created with.
C3_Witness ==
    /\ response.op = "update"
    /\ response.resp.status_code = 200
    /\ \E i \in DOMAIN jewelry_items :
          /\ jewelry_items[i].name = "New Name"
          /\ jewelry_items[i].updated_at > jewelry_items[i].created_at
          /\ jewelry_items[i].price.amount = 100
          /\ jewelry_items[i].ar_config.color = "#FFD700"
          /\ jewelry_items[i].status = "active"

----------------------------------------------------------------------------
(* C4 *)

ListedIds(resp) == {resp.items[k].item_id : k \in 1..Len(resp.items)}

NoFilter(value) == value \in {"", NoneStr}

C4_DeleteStep ==
    \A h \in Handlers, X \in ItemIds :
        delete_jewelry(h, X) =>
           /\ analytics_events' = analytics_events
           /\ response'.op = "delete"
           /\ IF X \in DOMAIN jewelry_items
              THEN /\ response'.resp.status_code = 200
                   /\ X \in DOMAIN jewelry_items'
                   /\ jewelry_items'[X].status = "archived"
              ELSE /\ response'.resp.status_code = 404
                   /\ jewelry_items' = jewelry_items

\* The List has no type filter.
Untyped(q, X) == NoFilter(q.type)

\* The type filter, if any, is X's type, and the requested page holds X's
\* position among the matching items in created_at-descending order.
OnPage(q, X) ==
    LET M == {i \in DOMAIN jewelry_items :
                 NoFilter(q.type) \/ jewelry_items[i].type = q.type}
        t == jewelry_items[X].created_at
        first == (q.page - 1) * q.page_size
    IN /\ X \in M
       /\ Cardinality({i \in M : jewelry_items[i].created_at > t}) >= first
       /\ Cardinality({i \in M : jewelry_items[i].created_at >= t}) <= first + q.page_size

\* A List and an archived item X: the default filter leaves X out; without a
\* status filter X is counted and is on the page: always (as claimed), or
\* when OnPage holds.
C4_ListStep(as_claimed) ==
    \A h \in Handlers, q \in ListInputs :
        get_all_jewelry(h, q.page, q.page_size, q.type, q.status) =>
           \A X \in DOMAIN jewelry_items :
              jewelry_items[X].status = "archived" =>
                 /\ q.status = "active" => X \notin ListedIds(response'.resp)
                 /\ (/\ NoFilter(q.status)
                     /\ IF as_claimed THEN Untyped(q, X) ELSE OnPage(q, X)) =>
                       /\ response'.resp.total_count >= 1
                       /\ X \in ListedIds(response'.resp)

\* C4 as claimed: after SoftDelete(X), X is stored with status "archived"; a
\* List with the default status filter does not contain X, and a List with
\* the status filter disabled (and no type filter) contains X.  SoftDelete of
\* an absent item_id fails NotFound and changes nothing.
C4_AsClaimed == [][C4_DeleteStep /\ C4_ListStep(TRUE)]_vars

\* C4, amended: ... a List with the status filter disabled counts X and
\* contains X when its type filter, if any, is X's type and the requested
\* page holds X's position in the created_at-descending order.
C4_SoftDelete == [][C4_DeleteStep /\ C4_ListStep(FALSE)]_vars

\* A List without status filter was answered and shows an archived item.
C4_Witness ==
    /\ response.op = "list"
    /\ NoFilter(response.status)
    /\ \E k \in 1..Len(response.resp.items) :
          /\ response.resp.items[k].status = "archived"
          /\ response.resp.items[k] = jewelry_items[response.resp.items[k].item_id]

----------------------------------------------------------------------------
(* C5 *)

StatusSteps ==
    {<<"draft", "active">>, <<"active", "archived">>}
    \cup {<<s, s>> : s \in JewelryStatuses}

\* C5: the status of a stored item only changes draft -> active or
\* active -> archived, and no item is ever removed from the store.
C5_StatusOrder ==
    [][\A i \in DOMAIN jewelry_items :
          /\ i \in DOMAIN jewelry_items'
          /\ <<jewelry_items[i].status, jewelry_items'[i].status>> \in StatusSteps]_vars

----------------------------------------------------------------------------
(* C6 *)

\* C6: every step that changes a stored item sets the item's updated_at to
\* the current time, and updated_at >= created_at in every reachable state.
C6_UpdatedAt ==
    /\ [](\A i \in DOMAIN jewelry_items :
             jewelry_items[i].updated_at >= jewelry_items[i].created_at)
    /\ [][\A i \in DOMAIN jewelry_items :
             jewelry_items'[i] # jewelry_items[i] => jewelry_items'[i].updated_at = now]_vars

----------------------------------------------------------------------------
(* C7 *)

\* C7: for every valid creation input Create inserts exactly one new item,
\* with an 8-character item_id, share_link.short_code = item_id, status
\* "active", all analytics counters 0 and created_at = updated_at, and
\* changes no existing item and no event.
C7_Create ==
    [][\A h \in Handlers, raw \in CreateInputs :
          (create_jewelry(h, raw) /\ ValidJewelryItemCreate(raw)) =>
             /\ analytics_events' = analytics_events
             /\ \A i \in DOMAIN jewelry_items :
                   i \in DOMAIN jewelry_items' /\ jewelry_items'[i] = jewelry_items[i]
             /\ \E X \in DOMAIN jewelry_items' \ DOMAIN jewelry_items :
                   LET d == jewelry_items'[X] IN
                   /\ DOMAIN jewelry_items' = DOMAIN jewelry_items \cup {X}
                   /\ d.item_id = X
                   /\ Len(X) = 8
                   /\ d.share_link.short_code = X
                   /\ d.status = "active"
                   /\ d.analytics = [views |-> 0, try_ons |-> 0, shares |-> 0,
                                     conversions |-> 0, revenue_generated |-> 0]
                   /\ d.created_at = d.updated_at]_vars

----------------------------------------------------------------------------
(* C10 *)

DocumentedARConfig ==
    [color |-> "#FFD700", size |-> 30, position_offset |-> [x |-> 0, y |-> 0],
     landmarks |-> <<234, 454>>, render_type |-> "circle"]

\* C10: Create with a valid input whose ar_config carries no values (left
\* out, null, or an empty object) succeeds and stores ar_config equal to the
\* documented defaults.
C10_DefaultARConfig ==
    [][\A h \in Handlers, raw \in CreateInputs :
          (/\ create_jewelry(h, raw)
           /\ ValidJewelryItemCreate(raw)
           /\ raw.ar_config \in {Omitted, NoneObj, <<>>}) =>
             /\ response'.resp.status_code = 201
             /\ \E X \in DOMAIN jewelry_items' \ DOMAIN jewelry_items :
                   jewelry_items'[X].ar_config = DocumentedARConfig]_vars

----------------------------------------------------------------------------
(* get_all_jewelry on the stores a run of the service can leave behind *)

MaxStored == 3
MaxPage == 2
MaxPageSize == 2

ValidCreate == CHOOSE raw \in CreateInputs : raw.ar_config = Omitted /\ raw.name # ""

\* An item created at time t whose type and status were set since.
StoredItem(n, t, type, status) ==
    [jewelry_doc(JewelryItemCreate(ValidCreate), Code8(n), t)
        EXCEPT !.type = type, !.status = status]

\* The stores of n items: created one after the other, in the order of their
\* codes, at times that do not decrease.
Stores(n, Types, Statuses) ==
    {[c \in {Code8(k) : k \in 1..n} |->
        LET k == CHOOSE k \in 1..n : Code8(k) = c
        IN StoredItem(k, f[k].t, f[k].type, f[k].status)] :
     f \in {g \in [1..n -> [t : 0..MaxTime, type : Types, status : Statuses]] :
              \A k \in 1..n, l \in 1..n : k < l => g[k].t <= g[l].t}}

\* The request is the last one of a run that left such a store.
InitList ==
    /\ \E n \in 0..MaxStored :
          jewelry_items \in Stores(n, {"ring", "earrings"}, {"active", "archived"})
    /\ analytics_events = <<>>
    /\ handlers = [h \in Handlers |-> Idle]
    /\ response = [op |-> "none"]
    /\ now = MaxTime
    /\ requests = MaxRequests - 1
    /\ ok_gets = [i \in DOMAIN jewelry_items |-> 0]
    /\ crashed = FALSE
    /\ tracked_after = {}

NextList ==
    \E h \in Handlers, page \in 1..MaxPage, page_size \in 1..MaxPageSize,
       type \in {NoneStr, "ring"}, status \in {"active", "", NoneStr} :
          get_all_jewelry(h, page, page_size, type, status)

SpecList == InitList /\ [][NextList]_vars

----------------------------------------------------------------------------
(* C8 *)

\* The stored items a List with these filters is about: those of the given
\* status, unless it is empty or null, and of the given type, unless it is.
Listed(type, status) ==
    {i \in DOMAIN jewelry_items :
        /\ (status \in {"", NoneStr} \/ jewelry_items[i].status = status)
        /\ (type \in {"", NoneStr} \/ jewelry_items[i].type = type)}

C8_Page ==
    response.op = "list" =>
      LET r == response.resp
          M == Listed(response.type, response.status)
          first == (r.page - 1) * r.page_size
          Newer(t) == Cardinality({i \in M : jewelry_items[i].created_at > t})
          NotOlder(t) == Cardinality({i \in M : jewelry_items[i].created_at >= t})
      IN /\ r.status_code = 200
         /\ r.total_count = Cardinality(M)
         \* total_pages = ceil(total_count / page_size)
         /\ r.total_pages * r.page_size >= r.total_count
         /\ (r.total_pages - 1) * r.page_size < r.total_count
         /\ r.count = Len(r.items)
         /\ r.count = Min(r.page_size, Max(0, r.total_count - first))
         \* the items are matching items, each once, as stored
         /\ \A k \in 1..Len(r.items) :
               /\ r.items[k].item_id \in M
               /\ r.items[k] = jewelry_items[r.items[k].item_id]
               /\ \A l \in 1..Len(r.items) : k # l => r.items[k] # r.items[l]
         \* the k-th item is at position first + k (counted from 1) of the
         \* matching items in created_at-descending order
         /\ \A k \in 1..Len(r.items) :
               /\ Newer(r.items[k].created_at) <= first + k - 1
               /\ NotOlder(r.items[k].created_at) >= first + k

\* C8: for page >= 1 and page_size >= 1, on a store that does not change
\* during the call, List returns the matching items at positions
\* (page-1)*page_size .. (page-1)*page_size+page_size-1 of the created_at-
\* descending order, with total_count the number of matching items,
\* total_pages = ceil(total_count/page_size) and count = len(items) =
\* min(page_size, max(0, total_count - (page-1)*page_size)); and List changes
\* no stored data.
C8_List ==
    /\ []C8_Page
    /\ [][jewelry_items' = jewelry_items /\ analytics_events' = analytics_events]_vars

\* A second page that is not full: 3 matching items, page 2 of size 2.
C8_Witness ==
    /\ response.op = "list"
    /\ response.resp.total_count = 3
    /\ response.resp.page = 2
    /\ response.resp.page_size = 2
    /\ response.resp.count = 1
    /\ response.resp.total_pages = 2

----------------------------------------------------------------------------
(* get_overall_analytics on stores whose counters hold any values *)

MaxSummed == 2

ViewCounts == {0, 2}
TryOnCounts == {0, 3, 10}
ConversionCounts == {0, 1, 2}

Counted(doc, views, try_ons, conversions) ==
    [doc EXCEPT !.analytics.views = views,
                !.analytics.try_ons = try_ons,
                !.analytics.shares = views + 1,
                !.analytics.conversions = conversions]

CountedStores(n) ==
    {[c \in {Code8(k) : k \in 1..n} |->
        LET k == CHOOSE k \in 1..n : Code8(k) = c
        IN Counted(StoredItem(k, 0, "ring", f[k].status),
                   f[k].views, f[k].try_ons, f[k].conversions)] :
     f \in [1..n -> [status : JewelryStatuses, views : ViewCounts,
                     try_ons : TryOnCounts, conversions : ConversionCounts]]}

InitAnalytics ==
    /\ \E n \in 0..MaxSummed : jewelry_items \in CountedStores(n)
    /\ analytics_events = <<>>
    /\ handlers = [h \in Handlers |-> Idle]
    /\ response = [op |-> "none"]
    /\ now = MaxTime
    /\ requests = MaxRequests - 1
    /\ ok_gets = [i \in DOMAIN jewelry_items |-> 0]
    /\ crashed = FALSE
    /\ tracked_after = {}

NextAnalytics == \E h \in Handlers : get_overall_analytics(h)

SpecAnalytics == InitAnalytics /\ [][NextAnalytics]_vars

----------------------------------------------------------------------------
(* C9 *)

\* The total of a counter over the active items, added up in the order of
\* the items' codes.
ActiveTotal(field) ==
    LET n == Cardinality(DOMAIN jewelry_items)
        upto[k \in 0..n] ==
            IF k = 0 THEN 0
            ELSE upto[k - 1]
                 + (IF jewelry_items[Code8(k)].status = "active"
                    THEN jewelry_items[Code8(k)].analytics[field] ELSE 0)
    IN upto[n]

ActiveItems == {i \in DOMAIN jewelry_items : jewelry_items[i].status = "active"}

C9_Summary ==
    response.op = "overall" =>
      LET r == response.resp
          s == r.summary
      IN /\ r.status_code = 200
         /\ s.total_items = Cardinality(ActiveItems)
         /\ s.total_views = ActiveTotal("views")
         /\ s.total_try_ons = ActiveTotal("try_ons")
         /\ s.total_shares = ActiveTotal("shares")
         /\ s.total_conversions = ActiveTotal("conversions")
         \* conversion_rate (in hundredths) is the hundredth nearest to
         \* total_conversions / total_try_ons * 100
         /\ s.total_try_ons > 0 =>
               LET exact == s.total_conversions * 10000
                   got == s.conversion_rate * s.total_try_ons
               IN 2 * (IF got >= exact THEN got - exact ELSE exact - got)
                     <= s.total_try_ons
         /\ s.total_try_ons = 0 => s.conversion_rate = 0
         /\ ActiveItems = {} => s.conversion_rate = 0

\* C9: GetOverallAnalytics counts and sums views, try_ons, shares and
\* conversions over exactly the active items, reports conversion_rate =
\* total_conversions/total_try_ons*100 rounded to 2 decimals when
\* total_try_ons > 0 and 0 otherwise, answers 200 whatever the denominator,
\* and changes no stored data.
C9_Overall ==
    /\ []C9_Summary
    /\ [][jewelry_items' = jewelry_items /\ analytics_events' = analytics_events]_vars

\* Two active items with try_ons 10 and 0, conversions 2 and 0: 20.00 percent.
C9_Witness ==
    /\ response.op = "overall"
    /\ response.resp.summary.total_items = 2
    /\ \E i \in ActiveItems : jewelry_items[i].analytics.try_ons = 0
    /\ response.resp.summary.total_try_ons = 10
    /\ response.resp.summary.total_conversions = 2
    /\ response.resp.summary.conversion_rate = 2000

----------------------------------------------------------------------------
(* The operations that write to the database, with every TrackEvent body, a
   process that may crash between the two writes of track_event, and the
   analytics summary.  The clock stands still: no write depends on it. *)

NextTrack ==
    \/ \E h \in Handlers, raw \in CreateInputs : create_jewelry(h, raw)
    \/ \E h \in Handlers, item_id \in ItemIds : get_find_one(h, item_id)
    \/ \E h \in Handlers : get_update_one(h)
    \/ \E h \in Handlers, item_id \in ItemIds, raw \in UpdateInputs :
          update_find_one(h, item_id, raw)
    \/ \E h \in Handlers : update_update_one(h)
    \/ \E h \in Handlers, item_id \in ItemIds : delete_jewelry(h, item_id)
    \/ \E h \in Handlers, event \in TrackInputs : track_insert_one(h, event)
    \/ \E h \in Handlers : track_update_one(h)
    \/ Crash
    \/ \E h \in Handlers : get_overall_analytics(h)

SpecTrack == Init /\ [][NextTrack]_vars

----------------------------------------------------------------------------
(* C11 *)

Negative(duration_seconds) ==
    duration_seconds # NoneInt /\ duration_seconds[1] < 0

C11_Persisted ==
    \A k \in 1..Len(analytics_events) :
        ~Negative(analytics_events[k].duration_seconds)

C11_TrackStep ==
    \A h \in Handlers, e \in TrackInputs :
        (Negative(e.duration_seconds) /\ track_insert_one(h, e)) =>
            /\ response'.op = "track"
            /\ response'.resp.status_code = 422
            /\ analytics_events' = analytics_events
            /\ jewelry_items' = jewelry_items
            /\ handlers' = handlers

\* C11: every persisted analytics event has duration_seconds absent/null or
\* >= 0, and a TrackEvent request with a negative duration_seconds is answered
\* with a validation error before any write, leaving the events and the item
\* counters unchanged.
C11_DurationSeconds == []C11_Persisted /\ [][C11_TrackStep]_vars

----------------------------------------------------------------------------
(* C12 *)

CountedTypes == {"try_on", "share"}

\* The persisted events of item X and type t.
EventsOf(X, t) ==
    {k \in 1..Len(analytics_events) :
        /\ analytics_events[k].jewelry_id = X
        /\ analytics_events[k].event_type = t}

\* Those inserted after X was created.
EventsAfterCreation(X, t) ==
    {k \in EventsOf(X, t) : analytics_events[k].event_id \in tracked_after}

\* analytics.<t>s of X.
CounterOf(X, t) ==
    IF CounterField(t) \in DOMAIN jewelry_items[X].analytics
    THEN jewelry_items[X].analytics[CounterField(t)]
    ELSE 0

NoTrackInFlight == \A h \in Handlers : handlers[h].op # "track"

\* Never a counter update without its event.
C12_CounterWithinEvents ==
    \A X \in DOMAIN jewelry_items, t \in CountedTypes :
        CounterOf(X, t) <= Cardinality(EventsOf(X, t))

\* The first write is the event insert, the second the counter increment of
\* an event already persisted; a crash between them undoes nothing.
C12_WriteOrder ==
    /\ \A h \in Handlers :
          /\ \A e \in TrackInputs :
                track_insert_one(h, e) => jewelry_items' = jewelry_items
          /\ track_update_one(h) =>
                /\ analytics_events' = analytics_events
                /\ \E k \in 1..Len(analytics_events) :
                      /\ analytics_events[k].jewelry_id = handlers[h].event.jewelry_id
                      /\ analytics_events[k].event_type = handlers[h].event.event_type
    /\ Crash => /\ jewelry_items' = jewelry_items
                /\ analytics_events' = analytics_events

\* With no TrackEvent in flight and none crashed, every event inserted after
\* its item was created has been counted.
C12_EventsAfterCreationCounted ==
    (NoTrackInFlight /\ ~crashed) =>
        \A X \in DOMAIN jewelry_items, t \in CountedTypes :
            Cardinality(EventsAfterCreation(X, t)) <= CounterOf(X, t)

C12_CounterIsEventsAfterCreation ==
    (NoTrackInFlight /\ ~crashed) =>
        \A X \in DOMAIN jewelry_items, t \in CountedTypes :
            CounterOf(X, t) = Cardinality(EventsAfterCreation(X, t))

\* C12 as stated: TrackEvent writes the event, then the counter, with no
\* atomicity between the two; in every state, crashed or suspended handlers
\* included, analytics.<t>s of X is at most the number of persisted events of
\* X and t (t try_on or share); and with no TrackEvent in flight and none
\* crashed it equals the number of those events tracked after X was created.
C12_AsClaimed ==
    /\ [][C12_WriteOrder]_vars
    /\ []C12_CounterWithinEvents
    /\ []C12_CounterIsEventsAfterCreation

\* C12, amended: as above, except that with no TrackEvent in flight and none
\* crashed the counter is at least the number of events of X and t inserted
\* after X was created and at most the number of all events of X and t (an
\* event inserted before X was created is counted when its counter update
\* runs after the creation).
C12_TrackEventWrites ==
    /\ [][C12_WriteOrder]_vars
    /\ []C12_CounterWithinEvents
    /\ []C12_EventsAfterCreationCounted

\* A crash between the two writes left a try_on event of a stored item
\* without its counter update.
C12_Witness ==
    /\ crashed
    /\ \E X \in DOMAIN jewelry_items :
          /\ EventsAfterCreation(X, "try_on") # {}
          /\ CounterOf(X, "try_on") = 0

----------------------------------------------------------------------------
(* C13 *)

C13_NeverConverted ==
    \A X \in DOMAIN jewelry_items :
        /\ jewelry_items[X].analytics.conversions = 0
        /\ jewelry_items[X].analytics.revenue_generated = 0

C13_Step ==
    /\ \A X \in DOMAIN jewelry_items :
          /\ jewelry_items'[X].analytics.conversions =
                jewelry_items[X].analytics.conversions
          /\ jewelry_items'[X].analytics.revenue_generated =
                jewelry_items[X].analytics.revenue_generated
    /\ \A h \in Handlers :
          /\ (track_update_one(h) /\ handlers[h].event.event_type = "purchase"
                 /\ handlers[h].event.jewelry_id \in DOMAIN jewelry_items) =>
                LET X == handlers[h].event.jewelry_id IN
                jewelry_items'[X].analytics.purchases =
                    CounterOf(X, "purchase") + 1
          /\ get_overall_analytics(h) =>
                /\ response'.resp.summary.total_conversions = 0
                /\ response'.resp.summary.conversion_rate = 0

\* C13: every stored item has analytics.conversions = 0 and
\* analytics.revenue_generated = 0, no operation changes the two fields after
\* creation, a TrackEvent of type purchase increments analytics.purchases
\* instead, and GetOverallAnalytics reports total_conversions 0 and
\* conversion_rate 0.
C13_Conversions == []C13_NeverConverted /\ [][C13_Step]_vars

\* The summary was answered with a purchase counted on an active item.
C13_Witness ==
    /\ response.op = "overall"
    /\ response.resp.status_code = 200
    /\ response.resp.summary.total_items > 0
    /\ \E X \in DOMAIN jewelry_items :
          /\ jewelry_items[X].status = "active"
          /\ CounterOf(X, "purchase") = 1

====
